---- MODULE Spec2Model ----
(***************************************************************************)
(* Model of tax_engine.py: the Compensation Cess engine (rule lookup       *)
(* through the memoized _get_rule, the five formula kinds, the higher_of   *)
(* branch that re-enters calculate_cess), the GST engine and the           *)
(* calculate_taxes_for_line orchestrator.                                  *)
(*                                                                         *)
(* Python floats are modelled as exact rationals [n, d] in lowest terms;   *)
(* None is a value of its own, so that arithmetic on None raises TypeError *)
(* as it does in Python.                                                   *)
(***************************************************************************)
EXTENDS Integers, Sequences, FiniteSets, TLC

VARIABLES
    rules,    \* the rule table every engine loads from cess_rules.json
    engines,  \* the engines a caller holds (the tests' engine objects)
    cache,    \* the lru_cache of _get_rule, shared by all engines
    last      \* the last call made: operation, arguments and outcome

vars == <<rules, engines, cache, last>>

----------------------------------------------------------------------------
(* Bounds of the model *)

\* engines a caller may hold at once (engine = CompensationCessEngine())
MaxEngines == 1
\* capacity of the _get_rule cache; the source says maxsize=1024, scaled down
\* so that eviction happens
LruMaxSize == 1
\* the interpreter's recursion limit (1000 frames by default), scaled down
RecursionLimit == 3
\* frames logger.exception needs below the frame that calls it
LogFrames == 1

----------------------------------------------------------------------------
(* Python values: numbers and None *)

\* the element of a one-element set; {F(x) : x \in {e}} evaluates e once
Only(S) == CHOOSE x \in S : TRUE

Abs(x) == IF x < 0 THEN -x ELSE x

RECURSIVE Gcd(_, _)
Gcd(a, b) == IF b = 0 THEN a ELSE Gcd(b, a % b)

\* the number n/d (d # 0) in lowest terms with a positive denominator
Num(n, d) ==
    LET g == Gcd(Abs(n), Abs(d))
        s == IF d < 0 THEN -1 ELSE 1
    IN  [t |-> "num", n |-> (s * n) \div g, d |-> (s * d) \div g]

None == [t |-> "none", n |-> 0, d |-> 1]

\* a key a dict does not have
Absent == [t |-> "absent", n |-> 0, d |-> 1]

Int2Num(i) == Num(i, 1)
Zero == Int2Num(0)

IsNum(x) == x.t = "num"

Add(a, b) == Num(a.n * b.d + b.n * a.d, a.d * b.d)
Mul(a, b) == Num(a.n * b.n, a.d * b.d)
Quot(a, b) == Num(a.n * b.d, a.d * b.n)
Less(a, b) == a.n * b.d < b.n * a.d

\* Python's max(a, b): b only when it is strictly greater
Max(a, b) == IF Less(a, b) THEN b ELSE a

----------------------------------------------------------------------------
(* Outcomes of evaluating an expression: a value, or an exception raised *)

Ok(v) == [exc |-> "none", v |-> v]
Raise(e) == [exc |-> e, v |-> None]

\* rule[key]
GetItem(x) == IF x.t = "absent" THEN Raise("KeyError") ELSE Ok(x)

\* a * b
PyMul(a, b) ==
    IF a.exc # "none" THEN a
    ELSE IF b.exc # "none" THEN b
    ELSE IF ~IsNum(a.v) \/ ~IsNum(b.v) THEN Raise("TypeError")
    ELSE Ok(Mul(a.v, b.v))

\* a / b
PyDiv(a, b) ==
    IF a.exc # "none" THEN a
    ELSE IF b.exc # "none" THEN b
    ELSE IF ~IsNum(a.v) \/ ~IsNum(b.v) THEN Raise("TypeError")
    ELSE IF b.v.n = 0 THEN Raise("ZeroDivisionError")
    ELSE Ok(Quot(a.v, b.v))

\* a + b
PyAdd(a, b) ==
    IF a.exc # "none" THEN a
    ELSE IF b.exc # "none" THEN b
    ELSE IF ~IsNum(a.v) \/ ~IsNum(b.v) THEN Raise("TypeError")
    ELSE Ok(Add(a.v, b.v))

----------------------------------------------------------------------------
(* Utilities *)

\* round(amount, 2): to the nearest hundredth, a tie to the even hundredth
round_amount(amount) ==
    LET num == 100 * amount.n
        f == num \div amount.d
        r == num % amount.d
    IN  IF 2 * r < amount.d THEN Num(f, 100)
        ELSE IF 2 * r > amount.d THEN Num(f + 1, 100)
        ELSE IF f % 2 = 0 THEN Num(f, 100)
        ELSE Num(f + 1, 100)

\* currency.upper() for the currency codes of the model
Upper(currency) ==
    CASE currency = "usd" -> "USD"
      [] currency = "eur" -> "EUR"
      [] OTHER -> currency

convert_to_inr(amount, currency) ==
    LET c == Upper(currency)
    IN  IF c = "USD" THEN Mul(amount, Num(165, 2))
        ELSE IF c = "EUR" THEN Mul(amount, Int2Num(90))
        ELSE amount

----------------------------------------------------------------------------
(* Rules: the content of cess_rules.json *)

Rule(type, rate_percent, unit_count, fixed_rate, rate_per_tonne, options) ==
    [type |-> type, rate_percent |-> rate_percent, unit_count |-> unit_count,
     fixed_rate |-> fixed_rate, rate_per_tonne |-> rate_per_tonne,
     options |-> options]

\* what self.rules.get(hsn) returns for a code the table does not have
NoRule == Rule("None", Absent, Absent, Absent, Absent, <<>>)

Hsns == {"21069020", "2701", "24022010", "24021010", "99999999"}

OptAdValorem == Rule("ad_valorem", Int2Num(21), Absent, Absent, Absent, <<>>)
OptFixedPerUnit ==
    Rule("fixed_per_unit", Absent, Int2Num(1000), Int2Num(4170), Absent, <<>>)

\* the rule set the tests expect
TestRules ==
    [h \in Hsns |->
        CASE h = "21069020" ->
               Rule("ad_valorem", Int2Num(60), Absent, Absent, Absent, <<>>)
          [] h = "2701" ->
               Rule("per_weight", Absent, Absent, Absent, Int2Num(400), <<>>)
          [] h = "24022010" ->
               Rule("combined", Int2Num(5), Int2Num(1000), Int2Num(1591),
                    Absent, <<>>)
          [] h = "24021010" ->
               Rule("higher_of", Absent, Absent, Absent, Absent,
                    <<OptAdValorem, OptFixedPerUnit>>)
          [] OTHER -> NoRule]

\* a rule set with a zero unit_count, an unknown type and a one-option
\* higher_of rule
AltRules ==
    [h \in Hsns |->
        CASE h = "21069020" ->
               Rule("fixed_per_unit", Absent, Int2Num(1000), Int2Num(4170),
                    Absent, <<>>)
          [] h = "2701" ->
               Rule("slab", Int2Num(12), Absent, Absent, Absent, <<>>)
          [] h = "24022010" ->
               Rule("combined", Int2Num(5), Zero, Int2Num(1591), Absent, <<>>)
          [] h = "24021010" ->
               Rule("higher_of", Absent, Absent, Absent, Absent,
                    <<OptAdValorem>>)
          [] OTHER ->
               Rule("fixed_per_unit", Absent, Zero, Int2Num(4170), Absent,
                    <<>>)]

\* what __init__ leaves when the file cannot be read or parsed
EmptyRules == [h \in Hsns |-> NoRule]

RuleSets == {TestRules, AltRules, EmptyRules}

----------------------------------------------------------------------------
(* CompensationCessEngine *)

\* the engines the cache refers to
CachedEngines(c) == {c[i].engine : i \in 1..Len(c)}

\* the identity of a newly constructed engine: distinct from every engine
\* that is still referenced
FreshEngine(c, live) ==
    LET used == CachedEngines(c) \cup live
    IN  CHOOSE e \in 1..(Cardinality(used) + 1) :
            /\ e \notin used
            /\ \A x \in 1..(e - 1) : x \in used

Remove(s, i) == [j \in 1..(Len(s) - 1) |-> IF j < i THEN s[j] ELSE s[j + 1]]

\* _get_rule remembering one rule whatever the key: the rule looked up last
\* is returned for every engine and code
get_rule_Unkeyed(self, hsn, c) ==
    IF Len(c) > 0
    THEN [rule |-> c[Len(c)].rule, cache |-> c]
    ELSE [rule |-> rules[hsn],
          cache |-> <<[engine |-> self, hsn |-> hsn, rule |-> rules[hsn]]>>]

\* @lru_cache(maxsize) def _get_rule(self, hsn): the cache is shared by all
\* engines and keyed by (self, hsn), the most recently used entry last
get_rule(self, hsn, c) ==
    IF \E i \in 1..Len(c) : c[i].engine = self /\ c[i].hsn = hsn
    THEN LET i == CHOOSE j \in 1..Len(c) :
                     c[j].engine = self /\ c[j].hsn = hsn
         IN  [rule |-> c[i].rule, cache |-> Append(Remove(c, i), c[i])]
    ELSE LET rule == rules[hsn]
             full == Append(c, [engine |-> self, hsn |-> hsn, rule |-> rule])
         IN  [rule |-> rule,
              cache |-> IF Len(full) > LruMaxSize THEN Tail(full) ELSE full]

\* the rate taken as a fraction instead of a percentage
AdValorem_NoPercent(rule, transaction_value) ==
    PyMul(Ok(transaction_value), GetItem(rule.rate_percent))

\* transaction_value * (rule['rate_percent'] / 100)
AdValorem(rule, transaction_value) ==
    PyMul(Ok(transaction_value),
          PyDiv(GetItem(rule.rate_percent), Ok(Int2Num(100))))

\* the division by unit_count left out
FixedPerUnit_NoDivision(rule, quantity) ==
    PyMul(Ok(quantity), GetItem(rule.fixed_rate))

\* (quantity / rule['unit_count']) * rule['fixed_rate']
FixedPerUnit(rule, quantity) ==
    PyMul(PyDiv(Ok(quantity), GetItem(rule.unit_count)),
          GetItem(rule.fixed_rate))

\* weight_tonnes * rule['rate_per_tonne']
PerWeight(rule, weight_tonnes) ==
    PyMul(Ok(weight_tonnes), GetItem(rule.rate_per_tonne))

\* ad + pu
Combined(rule, transaction_value, quantity) ==
    PyAdd(AdValorem(rule, transaction_value), FixedPerUnit(rule, quantity))

\* whether a logger call made from a frame at this depth fits the stack
LogFits(depth) == depth + LogFrames <= RecursionLimit

\* what a call of calculate_cess hands back: the value returned (or raised
\* = TRUE when an exception leaves the frame), how it was obtained, the
\* exception caught on the way, the cache afterwards, and counters of the
\* calls made, the deepest frame and the non-composite formulas applied
Returned(val, how, exc, c, calls, deepest, leaves) ==
    [raised |-> FALSE, val |-> val, how |-> how, exc |-> exc, cache |-> c,
     calls |-> calls, deepest |-> deepest, leaves |-> leaves]

\* the handler logging and raising again instead of returning 0.0
Handler_Reraises(exc, depth, c, calls, deepest, leaves) ==
    [raised |-> TRUE, val |-> Zero, how |-> "exception", exc |-> exc,
     cache |-> c, calls |-> calls, deepest |-> deepest, leaves |-> leaves]

\* except Exception as e: logger.exception(...); return 0.0
Handler(exc, depth, c, calls, deepest, leaves) ==
    IF LogFits(depth)
    THEN Returned(Zero, "exception", exc, c, calls, deepest, leaves)
    ELSE [raised |-> TRUE, val |-> Zero, how |-> "exception",
          exc |-> "RecursionError", cache |-> c, calls |-> calls,
          deepest |-> deepest, leaves |-> leaves]

\* a branch that returns the value of one formula
Formula(expr, depth, c) ==
    Only({IF e.exc = "none"
          THEN Returned(e.v, "formula", "none", c, 1, depth, 1)
          ELSE Handler(e.exc, depth, c, 1, depth, 0) :
          e \in {expr}})

\* the branch raising a LookupError instead of returning 0.0
Logged_Raises(how, depth, c) ==
    [raised |-> TRUE, val |-> Zero, how |-> how, exc |-> "LookupError",
     cache |-> c, calls |-> 1, deepest |-> depth, leaves |-> 0]

\* a branch that logs and returns 0.0
Logged(how, depth, c) ==
    IF LogFits(depth)
    THEN Returned(Zero, how, "none", c, 1, depth, 0)
    ELSE Handler("RecursionError", depth, c, 1, depth, 0)

RECURSIVE calculate_cess(_, _, _, _, _, _, _, _)
RECURSIVE HigherOfLoop(_, _, _, _, _, _, _, _)

\* best and the counters after the option's sub-evaluation sub
Accumulate(acc, sub) ==
    [val |-> Max(acc.val, sub.val), cache |-> sub.cache,
     calls |-> acc.calls + sub.calls,
     deepest |-> IF sub.deepest > acc.deepest THEN sub.deepest ELSE acc.deepest,
     leaves |-> acc.leaves + sub.leaves]

\* for opt in rule['options']: the iterations from the i-th on, acc holding
\* best, the cache and the counters so far. Every iteration constructs an
\* engine and calls calculate_cess with the same hsn; opt is not read
HigherOfLoop(rule, i, acc, hsn, transaction_value, quantity, weight_tonnes, ctx) ==
    IF i > Len(rule.options)
    THEN Returned(acc.val, "higher_of", "none", acc.cache, acc.calls,
                  acc.deepest, acc.leaves)
    ELSE IF ctx.depth + 1 > RecursionLimit
    THEN Handler("RecursionError", ctx.depth, acc.cache, acc.calls,
                 acc.deepest, acc.leaves)
    ELSE Only({
        IF sub.raised
        THEN Handler(sub.exc, ctx.depth, next.cache, next.calls,
                     next.deepest, next.leaves)
        ELSE HigherOfLoop(rule, i + 1, next, hsn, transaction_value,
                          quantity, weight_tonnes, ctx) :
        <<sub, next>> \in
            {<<r, Accumulate(acc, r)>> :
             r \in {calculate_cess(FreshEngine(acc.cache, ctx.live), hsn,
                                   transaction_value, quantity, weight_tonnes,
                                   ctx.depth + 1, acc.cache,
                                   ctx.live \cup
                                       {FreshEngine(acc.cache, ctx.live)})}}})

\* calculate_cess called on engine self in a frame at the given depth, with
\* cache c and the engines in live referenced by the frames below
calculate_cess(self, hsn, transaction_value, quantity, weight_tonnes, depth, c, live) ==
    Only({
        IF g.rule = NoRule THEN Logged("not_found", depth, g.cache)
        ELSE IF g.rule.type = "ad_valorem"
        THEN Formula(AdValorem(g.rule, transaction_value), depth, g.cache)
        ELSE IF g.rule.type = "fixed_per_unit"
        THEN Formula(FixedPerUnit(g.rule, quantity), depth, g.cache)
        ELSE IF g.rule.type = "per_weight"
        THEN Formula(PerWeight(g.rule, weight_tonnes), depth, g.cache)
        ELSE IF g.rule.type = "combined"
        THEN Formula(Combined(g.rule, transaction_value, quantity), depth,
                     g.cache)
        ELSE IF g.rule.type = "higher_of"
        THEN HigherOfLoop(g.rule, 1,
                          [val |-> Zero, cache |-> g.cache, calls |-> 1,
                           deepest |-> depth, leaves |-> 0],
                          hsn, transaction_value, quantity, weight_tonnes,
                          [depth |-> depth, live |-> live])
        ELSE Logged("unknown_type", depth, g.cache) :
        g \in {get_rule(self, hsn, c)}})

----------------------------------------------------------------------------
(* GSTEngine *)

Gst(cgst, sgst, igst, exc) ==
    [cgst |-> cgst, sgst |-> sgst, igst |-> igst, exc |-> exc]

\* the intrastate branch charging the full rate as CGST and again as SGST
calculate_gst_FullRateEach(transaction_value, gst_rate, interstate) ==
    Only({IF g.exc # "none" THEN Gst(Zero, Zero, Zero, g.exc)
          ELSE IF interstate THEN Gst(Zero, Zero, g.v, "none")
          ELSE Gst(g.v, g.v, Zero, "none") :
          g \in {PyMul(Ok(transaction_value),
                       PyDiv(Ok(gst_rate), Ok(Int2Num(100))))}})

calculate_gst(transaction_value, gst_rate, interstate) ==
    IF interstate
    THEN Only({IF igst.exc = "none" THEN Gst(Zero, Zero, igst.v, "none")
               ELSE Gst(Zero, Zero, Zero, igst.exc) :
               igst \in {PyMul(Ok(transaction_value),
                               PyDiv(Ok(gst_rate), Ok(Int2Num(100))))}})
    ELSE Only({IF cg.exc = "none" THEN Gst(cg.v, cg.v, Zero, "none")
               ELSE Gst(Zero, Zero, Zero, cg.exc) :
               cg \in {PyMul(Ok(transaction_value),
                             PyDiv(PyDiv(Ok(gst_rate), Ok(Int2Num(2))),
                                   Ok(Int2Num(100))))}})

----------------------------------------------------------------------------
(* calculate_taxes_for_line *)

\* the frame depth at which a caller's calculate_cess runs
TestDepth == 1
LineDepth == 2

\* form_data.get(key, default)
GetOr(x, default) == IF x.t = "absent" THEN default ELSE x

\* what calculate_taxes_for_line hands back when no cess was computed
NotCalled ==
    [raised |-> FALSE, val |-> Zero, how |-> "not_called", exc |-> "none",
     calls |-> 0, deepest |-> 0, leaves |-> 0]

\* an outcome of calculate_cess without the cache it leaves
Summary(r) ==
    [raised |-> r.raised, val |-> r.val, how |-> r.how, exc |-> r.exc,
     calls |-> r.calls, deepest |-> r.deepest, leaves |-> r.leaves]

\* the cess computed for every category
LineCess_IgnoresCategory(hsn, category, assessable_value, quantity, weight_tonnes, c, live) ==
    Only({[cess |-> round_amount(r.val), cache |-> r.cache,
           call |-> Summary(r)] :
          r \in {calculate_cess(FreshEngine(c, live), hsn, assessable_value,
                                quantity, weight_tonnes, LineDepth, c,
                                live \cup {FreshEngine(c, live)})}})

\* the cess left as calculate_cess returns it, without round_amount
LineCess_Unrounded(hsn, category, assessable_value, quantity, weight_tonnes, c, live) ==
    IF category # "Custom"
    THEN Only({[cess |-> r.val, cache |-> r.cache, call |-> Summary(r)] :
               r \in {calculate_cess(FreshEngine(c, live), hsn,
                                     assessable_value, quantity,
                                     weight_tonnes, LineDepth, c,
                                     live \cup {FreshEngine(c, live)})}})
    ELSE [cess |-> Zero, cache |-> c, call |-> NotCalled]

\* cess = 0.0, replaced for a category other than 'Custom' by the rounded
\* result of a new engine's calculate_cess
LineCess(hsn, category, assessable_value, quantity, weight_tonnes, c, live) ==
    IF category # "Custom"
    THEN Only({[cess |-> round_amount(r.val), cache |-> r.cache,
                call |-> Summary(r)] :
               r \in {calculate_cess(FreshEngine(c, live), hsn,
                                     assessable_value, quantity,
                                     weight_tonnes, LineDepth, c,
                                     live \cup {FreshEngine(c, live)})}})
    ELSE [cess |-> Zero, cache |-> c, call |-> NotCalled]

\* total_tax = round_amount(cgst + sgst + igst + cess)
TotalTax(cgst, sgst, igst, cess) ==
    round_amount(Add(Add(Add(cgst, sgst), igst), cess))

\* assessable_value after the currency conversion
AssessableValue(form_data) ==
    IF form_data.currency # "INR"
    THEN convert_to_inr(form_data.base_price, form_data.currency)
    ELSE form_data.base_price

\* weight_tonnes: grams to tonnes, None when no weight is given
WeightTonnes(form_data) ==
    IF GetOr(form_data.weight_grams, None) # None
    THEN Quot(form_data.weight_grams, Int2Num(1000000))
    ELSE None

\* the result dict
Result(form_data, assessable_value, weight_tonnes, cgst, sgst, igst, cess) ==
    [HSN |-> form_data.hsn, Category |-> form_data.category,
     AssessableValue |-> assessable_value,
     Quantity |-> GetOr(form_data.qty_uom, Zero),
     WeightTonnes |-> weight_tonnes,
     CGST |-> cgst, SGST |-> sgst, IGST |-> igst, CompensationCess |-> cess,
     TotalTax |-> TotalTax(cgst, sgst, igst, cess)]

\* the function's outcome: the result dict, or the exception it raises,
\* with the cache afterwards and what the cess engine did
calculate_taxes_for_line(form_data, c, live) ==
    IF form_data.base_price.t = "absent"
    THEN [kind |-> "raised", exc |-> "KeyError", result |-> None,
          cache |-> c, call |-> NotCalled]
    ELSE IF form_data.base_price.t = "none"
    THEN [kind |-> "raised", exc |-> "TypeError", result |-> None,
          cache |-> c, call |-> NotCalled]
    ELSE Only({
        IF lc.call.raised
        THEN [kind |-> "raised", exc |-> lc.call.exc, result |-> None,
              cache |-> lc.cache, call |-> lc.call]
        ELSE [kind |-> "returned", exc |-> "none",
              result |-> Result(form_data, av, wt, round_amount(gst.cgst),
                                round_amount(gst.sgst),
                                round_amount(gst.igst), lc.cess),
              cache |-> lc.cache, call |-> lc.call] :
        <<av, wt, gst, lc>> \in
            {<<v, w, calculate_gst(v, GetOr(form_data.gst_rate, Zero),
                                   form_data.interstate),
               LineCess(form_data.hsn, form_data.category, v,
                        GetOr(form_data.qty_uom, Zero), w, c, live)>> :
             <<v, w>> \in {<<AssessableValue(form_data),
                             WeightTonnes(form_data)>>}}})

----------------------------------------------------------------------------
(* Inputs *)

\* arguments of a direct call of calculate_cess
Values == {None, Int2Num(1000), Num(41, 4)}
Quantities == {None, Zero, Int2Num(500)}
Weights == {None, Num(5, 2)}

\* arguments of a direct call of calculate_gst
GstValues == {None, Zero, Int2Num(500), Int2Num(1000), Int2Num(2000), Num(41, 4), Num(1999, 100), Num(1, 3)}
GstRates == {None, Zero, Int2Num(5), Int2Num(12), Int2Num(18), Int2Num(28), Num(1, 4)}

Categories == {"Default", "Custom"}
WeightGrams == {None, Int2Num(2500000)}

\* the money side of a form: price, quantity, GST rate, interstate, currency
Context(base_price, qty_uom, gst_rate, interstate, currency) ==
    [base_price |-> base_price, qty_uom |-> qty_uom, gst_rate |-> gst_rate,
     interstate |-> interstate, currency |-> currency]

Contexts ==
    {Context(Int2Num(2000), Zero, Int2Num(18), FALSE, "INR"),
     Context(Num(41, 4), Int2Num(500), Int2Num(5), FALSE, "usd"),
     Context(Int2Num(1000), Int2Num(500), Int2Num(18), TRUE, "XYZ")}

Form(hsn, category, weight_grams, x) ==
    [hsn |-> hsn, category |-> category, base_price |-> x.base_price,
     qty_uom |-> x.qty_uom, weight_grams |-> weight_grams,
     gst_rate |-> x.gst_rate, interstate |-> x.interstate,
     currency |-> x.currency]

\* the forms of the model, one of them without the 'base_price' key
Forms ==
    {Form(h, cat, w, x) :
        h \in Hsns, cat \in Categories, w \in WeightGrams, x \in Contexts}
    \cup {Form("21069020", "Default", None,
               Context(Absent, Absent, Absent, FALSE, "INR"))}

----------------------------------------------------------------------------
(* State machine *)

Init ==
    /\ rules \in RuleSets
    /\ engines = {}
    /\ cache = <<>>
    /\ last = [op |-> "init", in |-> None, out |-> None]

\* engine = CompensationCessEngine()
NewEngine ==
    /\ Cardinality(engines) < MaxEngines
    /\ \E e \in {FreshEngine(cache, engines)} :
          /\ engines' = engines \cup {e}
          /\ last' = [op |-> "new", in |-> None, out |-> e]
    /\ UNCHANGED <<rules, cache>>

\* engine.calculate_cess(hsn, transaction_value=, quantity=, weight_tonnes=)
CallCalculateCess ==
    /\ \E e \in engines, hsn \in Hsns, tv \in Values, q \in Quantities, w \in Weights :
          \E r \in {calculate_cess(e, hsn, tv, q, w, TestDepth, cache, engines)} :
              /\ cache' = r.cache
              /\ last' = [op |-> "cess",
                          in |-> [self |-> e, hsn |-> hsn,
                                  transaction_value |-> tv, quantity |-> q,
                                  weight_tonnes |-> w],
                          out |-> Summary(r)]
    /\ UNCHANGED <<rules, engines>>

\* GSTEngine().calculate_gst(transaction_value, gst_rate, interstate)
CallCalculateGst ==
    /\ \E tv \in GstValues, rate \in GstRates, inter \in BOOLEAN :
          last' = [op |-> "gst",
                   in |-> [transaction_value |-> tv, gst_rate |-> rate,
                           interstate |-> inter],
                   out |-> calculate_gst(tv, rate, inter)]
    /\ UNCHANGED <<rules, engines, cache>>

\* calculate_taxes_for_line(form_data)
CallCalculateTaxesForLine ==
    /\ \E form \in Forms :
          \E r \in {calculate_taxes_for_line(form, cache, engines)} :
              /\ cache' = r.cache
              /\ last' = [op |-> "line", in |-> form,
                          out |-> [kind |-> r.kind, exc |-> r.exc,
                                   result |-> r.result, call |-> r.call]]
    /\ UNCHANGED <<rules, engines>>

\* the GST engine called on its own
NextGst == CallCalculateGst

SpecGst == Init /\ [][NextGst]_vars

\* engines constructed and then called directly, as the tests do
NextCess ==
    \/ NewEngine
    \/ CallCalculateCess

SpecCess == Init /\ [][NextCess]_vars

\* requests served by calculate_taxes_for_line
Next == CallCalculateTaxesForLine

Spec == Init /\ [][Next]_vars

----------------------------------------------------------------------------
(* Claims about calculate_gst, checked under SpecGst *)

GstCall == last.op = "gst"

NonNegative(x) == IsNum(x) /\ ~Less(x, Zero)

\* C2: for value >= 0 and rate >= 0, calculate_gst returns
\* cgst = sgst = value*rate/200 and igst = 0 when interstate is false, and
\* cgst = sgst = 0 and igst = value*rate/100 when interstate is true.
C2_GstSplit ==
    (GstCall /\ NonNegative(last.in.transaction_value)
             /\ NonNegative(last.in.gst_rate))
    => IF last.in.interstate
       THEN /\ last.out.cgst = Zero
            /\ last.out.sgst = Zero
            /\ last.out.igst =
                 Quot(Mul(last.in.transaction_value, last.in.gst_rate),
                      Int2Num(100))
       ELSE /\ last.out.cgst =
                 Quot(Mul(last.in.transaction_value, last.in.gst_rate),
                      Int2Num(200))
            /\ last.out.sgst = last.out.cgst
            /\ last.out.igst = Zero

\* an intrastate split of 10.25 at 5%: 0.25625 each
C2_Witness ==
    /\ GstCall
    /\ ~last.in.interstate
    /\ last.in.transaction_value = Num(41, 4)
    /\ last.in.gst_rate = Int2Num(5)
    /\ last.out.cgst = Num(41, 160)
    /\ last.out.sgst = Num(41, 160)

----------------------------------------------------------------------------
(* Claims about calculate_cess, checked under SpecCess *)

CessCall == last.op = "cess"

\* the rule the store holds for the code of the last call
CalledRule == rules[last.in.hsn]

\* the formula of a non-composite rule on the inputs of the last call
PlainFormula(rule) ==
    CASE rule.type = "ad_valorem" ->
           AdValorem(rule, last.in.transaction_value)
      [] rule.type = "fixed_per_unit" -> FixedPerUnit(rule, last.in.quantity)
      [] rule.type = "per_weight" -> PerWeight(rule, last.in.weight_tonnes)
      [] rule.type = "combined" ->
           Combined(rule, last.in.transaction_value, last.in.quantity)

OptionsEvaluate(rule) ==
    \A i \in 1..Len(rule.options) : PlainFormula(rule.options[i]).exc = "none"

\* C1: for a HigherOf rule, calculate_cess returns the maximum of the
\* results of its options on the same inputs: the result is one of the
\* options' results and is not less than any of them.
C1_HigherOfReturnsMax ==
    (CessCall /\ CalledRule.type = "higher_of" /\ OptionsEvaluate(CalledRule))
    => /\ ~last.out.raised
       /\ \E i \in 1..Len(CalledRule.options) :
             last.out.val = PlainFormula(CalledRule.options[i]).v
       /\ \A i \in 1..Len(CalledRule.options) :
             ~Less(last.out.val, PlainFormula(CalledRule.options[i]).v)

\* C10: evaluating a HigherOf rule with n options makes n sub-evaluations,
\* one frame below the call, and none of them recurses further.
C10_HigherOfDepthBounded ==
    (CessCall /\ CalledRule.type = "higher_of")
    => /\ last.out.calls = 1 + Len(CalledRule.options)
       /\ last.out.deepest <= TestDepth + 1
       /\ last.out.exc # "RecursionError"

\* the inputs the kind of the rule requires are numbers, and unit_count # 0
InputsPresent(rule) ==
    CASE rule.type = "ad_valorem" -> IsNum(last.in.transaction_value)
      [] rule.type = "fixed_per_unit" ->
           IsNum(last.in.quantity) /\ rule.unit_count # Zero
      [] rule.type = "per_weight" -> IsNum(last.in.weight_tonnes)
      [] rule.type = "combined" ->
           /\ IsNum(last.in.transaction_value)
           /\ IsNum(last.in.quantity)
           /\ rule.unit_count # Zero
      [] OTHER -> FALSE

\* value * ratePercent / 100
ExpectedAdValorem(rule) ==
    Quot(Mul(last.in.transaction_value, rule.rate_percent), Int2Num(100))

\* (quantity / unitCount) * fixedRate
ExpectedFixedPerUnit(rule) ==
    Mul(Quot(last.in.quantity, rule.unit_count), rule.fixed_rate)

\* C3: with the required inputs present, calculate_cess returns exactly the
\* formula of the rule's kind: value*ratePercent/100 for AdValorem,
\* (quantity/unitCount)*fixedRate for FixedPerUnit, weightTonnes*ratePerTonne
\* for PerWeight, and the sum of the first two for Combined.
C3_FormulaPerKind ==
    (CessCall /\ InputsPresent(CalledRule))
    => /\ ~last.out.raised
       /\ last.out.how = "formula"
       /\ last.out.val =
            CASE CalledRule.type = "ad_valorem" ->
                   ExpectedAdValorem(CalledRule)
              [] CalledRule.type = "fixed_per_unit" ->
                   ExpectedFixedPerUnit(CalledRule)
              [] CalledRule.type = "per_weight" ->
                   Mul(last.in.weight_tonnes, CalledRule.rate_per_tonne)
              [] CalledRule.type = "combined" ->
                   Add(ExpectedAdValorem(CalledRule),
                       ExpectedFixedPerUnit(CalledRule))

\* the Combined rule of the tests on 1000 and 500 units: 50 + 795.5
C3_Witness ==
    /\ CessCall
    /\ CalledRule.type = "combined"
    /\ last.in.transaction_value = Int2Num(1000)
    /\ last.in.quantity = Int2Num(500)
    /\ last.out.val = Num(1691, 2)

ZeroUnitCount(rule) ==
    /\ rule.type \in {"fixed_per_unit", "combined"}
    /\ rule.unit_count = Zero

\* C5 as stated: evaluating a FixedPerUnit or Combined rule whose unitCount
\* is 0 ends in a failure for every quantity, never in a returned amount.
C5_ZeroUnitCountFails ==
    (CessCall /\ ZeroUnitCount(CalledRule)) => last.out.raised

\* C5 as amended: the failure is caught inside calculate_cess, which returns
\* the amount 0.0; the exception caught is the ZeroDivisionError when both
\* operands are numbers.
C5_ZeroUnitCountReturnsZero ==
    (CessCall /\ ZeroUnitCount(CalledRule))
    => /\ ~last.out.raised
       /\ last.out.how = "exception"
       /\ last.out.val = Zero
       /\ last.out.exc \in {"ZeroDivisionError", "TypeError"}
       /\ (IsNum(last.in.quantity) /\ IsNum(last.in.transaction_value))
             => last.out.exc = "ZeroDivisionError"

\* 500 units under a FixedPerUnit rule with unit_count 0
C5_Witness ==
    /\ CessCall
    /\ CalledRule.type = "fixed_per_unit"
    /\ CalledRule.unit_count = Zero
    /\ last.in.quantity = Int2Num(500)
    /\ last.out.exc = "ZeroDivisionError"
    /\ last.out.val = Zero

----------------------------------------------------------------------------
(* Claims about calculate_taxes_for_line, checked under Spec *)

LineCall == last.op = "line"

LineRule == rules[last.in.hsn]

LineResult == last.out.result

\* round(CGST + SGST + IGST) of the last result
RoundedGstSum ==
    round_amount(Add(Add(LineResult.CGST, LineResult.SGST), LineResult.IGST))

\* C4: when the rule store has no rule for the code, calculate_cess does not
\* raise and calculate_taxes_for_line returns CompensationCess = 0.0 and
\* TotalTax = round(CGST + SGST + IGST), for every form with a base price.
C4_RuleNotFoundIsZero ==
    (LineCall /\ LineRule = NoRule /\ IsNum(last.in.base_price))
    => /\ last.out.kind = "returned"
       /\ ~last.out.call.raised
       /\ last.in.category # "Custom" => last.out.call.how = "not_found"
       /\ LineResult.CompensationCess = Zero
       /\ LineResult.TotalTax = RoundedGstSum

\* the code the tests leave without a rule, on 2000 at 18% intrastate
C4_Witness ==
    /\ LineCall
    /\ rules = TestRules
    /\ last.in.hsn = "99999999"
    /\ last.in.category = "Default"
    /\ last.out.call.how = "not_found"
    /\ LineResult.CGST = Int2Num(180)
    /\ LineResult.TotalTax = Int2Num(360)

\* a rule is present and its evaluation fails on the form: a PerWeight rule
\* without weight, a zero unit_count, or a kind that is not one of the five
EvaluationFails ==
    /\ LineRule # NoRule
    /\ IsNum(last.in.base_price)
    /\ \/ LineRule.type = "per_weight" /\ ~IsNum(last.in.weight_grams)
       \/ ZeroUnitCount(LineRule)
       \/ LineRule.type \notin {"ad_valorem", "fixed_per_unit", "per_weight",
                                "combined", "higher_of"}

\* C6 as stated: when a rule exists and its evaluation fails,
\* calculate_taxes_for_line with a category other than "Custom" reports an
\* error to its caller.
C6_FailureIsReported ==
    (LineCall /\ last.in.category # "Custom" /\ EvaluationFails)
    => last.out.kind = "raised"

\* C6 as amended: the failure is logged inside calculate_cess and the line
\* is returned with CompensationCess = 0.0 and
\* TotalTax = round(CGST + SGST + IGST).
C6_FailureBecomesZeroCess ==
    (LineCall /\ last.in.category # "Custom" /\ EvaluationFails)
    => /\ last.out.kind = "returned"
       /\ last.out.call.how \in {"exception", "unknown_type"}
       /\ LineResult.CompensationCess = Zero
       /\ LineResult.TotalTax = RoundedGstSum

\* the PerWeight rule of the tests on a form without weight
C6_Witness ==
    /\ LineCall
    /\ last.in.category = "Default"
    /\ LineRule.type = "per_weight"
    /\ last.in.weight_grams = None
    /\ last.out.call.exc = "TypeError"
    /\ LineResult.CompensationCess = Zero
    /\ LineResult.TotalTax = Int2Num(360)

\* C7: with category "Custom", calculate_taxes_for_line does not call the
\* cess engine and returns CompensationCess = 0.0 and
\* TotalTax = round(CGST + SGST + IGST), whatever the rule for the code.
C7_CustomSkipsCess ==
    (LineCall /\ last.in.category = "Custom" /\ IsNum(last.in.base_price))
    => /\ last.out.kind = "returned"
       /\ last.out.call = NotCalled
       /\ LineResult.CompensationCess = Zero
       /\ LineResult.TotalTax = RoundedGstSum

\* the second scenario of the tests: code 21069020, whose rule would give
\* 1200, with category "Custom"
C7_Witness ==
    /\ LineCall
    /\ rules = TestRules
    /\ last.in.hsn = "21069020"
    /\ last.in.category = "Custom"
    /\ last.in.base_price = Int2Num(2000)
    /\ LineResult.CompensationCess = Zero
    /\ LineResult.TotalTax = Int2Num(360)

\* x has at most two decimal places
TwoDecimals(x) == IsNum(x) /\ 100 % x.d = 0

\* C8: in every result returned, CGST, SGST, IGST and CompensationCess have
\* two decimal places and TotalTax is the two-decimal rounding of their sum.
C8_RoundedComponents ==
    (LineCall /\ last.out.kind = "returned")
    => /\ TwoDecimals(LineResult.CGST)
       /\ TwoDecimals(LineResult.SGST)
       /\ TwoDecimals(LineResult.IGST)
       /\ TwoDecimals(LineResult.CompensationCess)
       /\ LineResult.TotalTax =
            round_amount(Add(Add(Add(LineResult.CGST, LineResult.SGST),
                                 LineResult.IGST),
                             LineResult.CompensationCess))

\* 10.25 USD under the 60% rule: 845.625 assessable, 21.140625 of CGST
\* and 507.375 of cess before rounding
C8_Witness ==
    /\ LineCall
    /\ last.out.kind = "returned"
    /\ LineResult.AssessableValue = Num(6765, 8)
    /\ LineResult.CGST = Num(2114, 100)
    /\ LineResult.CompensationCess = Num(50738, 100)
    /\ LineResult.TotalTax = Num(54966, 100)

\* C9: a call of calculate_taxes_for_line returns what the same call returns
\* when it is the first one made, whatever calls ran before it and whatever
\* they left in the cache of _get_rule.
C9_HistoryIndependent ==
    LineCall
    => \E first \in {calculate_taxes_for_line(last.in, <<>>, {})} :
          /\ last.out.kind = first.kind
          /\ last.out.exc = first.exc
          /\ last.out.result = first.result
          /\ last.out.call = first.call

\* a call with a non-zero cess made by a second engine, the first one still
\* referenced by the cache when it was constructed
C9_Witness ==
    /\ LineCall
    /\ last.in.category = "Default"
    /\ last.out.kind = "returned"
    /\ LineResult.CompensationCess # Zero
    /\ Len(cache) > 0
    /\ cache[Len(cache)].engine > 1

====
